---- MODULE Spec2Model ----
(***************************************************************************)
(* Model of buildbot.util.httpclientservice.HTTPClientService:             *)
(* backend selection at startService, release at stopService, the request  *)
(* normalizer _prepareRequest, the two dispatch paths _doTxRequest and     *)
(* _doTReq, the ResponseWrapper accessors and checkAvailable.              *)
(*                                                                         *)
(* Python values are tagged records [type |-> ..., ...] so that            *)
(* isinstance() and "is None" are tests on the tag.  A dict is a TLA+      *)
(* function from its keys; kwargs is a function whose DOMAIN is the set of *)
(* keyword names that were passed.                                         *)
(***************************************************************************)
EXTENDS Integers, Sequences, FiniteSets, TLC

VARIABLES
    txrequests,     \* module global: TRUE iff "import txrequests" succeeded
    treq,           \* module global: TRUE iff "import treq" succeeded
    PREFER_TREQ,    \* class attribute HTTPClientService.PREFER_TREQ
    instPreferTreq, \* instance attribute self.PREFER_TREQ ("unset" until assigned)
    _auth,          \* self._auth
    _headers,       \* self._headers
    _session,       \* self._session
    _pool,          \* self._pool
    _agent,         \* self._agent
    _doRequest,     \* self._doRequest (bound method name, "unset" before first start)
    running,        \* host lifecycle: between a start hook and the next stop hook
    startResult,    \* outcome of the most recent startService
    stopResult,     \* what the most recent stopService returned
    lastCall,       \* outcome of the most recent verb call
    wrapper,        \* the ResponseWrapper returned by the most recent BackendA call
    lastCheck,      \* outcome of the most recent checkAvailable
    kwargs          \* the keyword options the caller passes to the verb methods

vars == <<txrequests, treq, PREFER_TREQ, instPreferTreq, _auth, _headers,
          _session, _pool, _agent, _doRequest, running, startResult,
          stopResult, lastCall, wrapper, lastCheck, kwargs>>

envVars == <<txrequests, treq, kwargs>>

instVars == <<instPreferTreq, _auth, _headers, _session, _pool, _agent,
              _doRequest>>

(***************************************************************************)
(* Bounds and value universes                                              *)
(***************************************************************************)
MaxAccess == 2      \* accessor invocations tracked on one ResponseWrapper

MAX_THREADS == 5

None == [type |-> "NoneType"]

IsNone(v) == v.type = "NoneType"

IsInstance(v, t) == v.type = t

Dict(f) == [type |-> "dict", items |-> f]

EmptyMap == [k \in {} |-> "x"]

\* credentials: a (user, password) tuple and an opaque auth object
TupleAuth == [type |-> "tuple", val |-> "user:pw"]

TokenAuth == [type |-> "HTTPDigestAuth", val |-> "token"]

CallAuth == [type |-> "tuple", val |-> "other:pw"]

HeaderNames == {"Content-Type", "X-Api"}

HeaderMaps(vals) ==
    UNION {[S -> vals] : S \in SUBSET HeaderNames}

InstHeaderChoices == {None} \cup {Dict(m) : m \in HeaderMaps({"inst"}) \ {EmptyMap}}

CallHeaderChoices == {Dict(m) : m \in HeaderMaps({"call"}) \ {EmptyMap}}

InstAuthChoices == {None, TupleAuth, TokenAuth}

\* payloads for data= and json=: a dict and a non-dict
Payloads == {Dict([a |-> "1"]), [type |-> "str", val |-> <<"raw">>]}

Absent == [type |-> "absent"]

KwNames == {"auth", "headers", "data", "json"}

MkKwargs(a, h, d, j) ==
    LET full == [k \in KwNames |->
                    CASE k = "auth" -> a
                      [] k = "headers" -> h
                      [] k = "data" -> d
                      [] k = "json" -> j]
    IN  [k \in {n \in KwNames : full[n] # Absent} |-> full[k]]

NoKwargs == MkKwargs(Absent, Absent, Absent, Absent)

KwargsChoices ==
    {MkKwargs(a, h, d, j) :
        a \in {Absent, CallAuth},
        h \in {Absent} \cup CallHeaderChoices,
        d \in {Absent} \cup Payloads,
        j \in {Absent} \cup Payloads}

Labels == {"GerritStatusPush", "HipChatStatusPush"}


(***************************************************************************)
(* Pure helpers                                                            *)
(***************************************************************************)
\* dict.update(other): keys of other overwrite, remaining keys are kept
DictUpdate(d, other) ==
    Dict([k \in DOMAIN d.items \cup DOMAIN other.items |->
            IF k \in DOMAIN other.items THEN other.items[k] ELSE d.items[k]])

\* dict([(k, [v]) for k, v in headers.items()])
Listify(d) == Dict([k \in DOMAIN d.items |-> <<d.items[k]>>])

\* d[k] = v on a dict value
DictSet(d, k, v) ==
    Dict([n \in DOMAIN d.items \cup {k} |-> IF n = k THEN v ELSE d.items[n]])

\* kwargs[k] = v
KwSet(kw, k, v) == [n \in DOMAIN kw \cup {k} |-> IF n = k THEN v ELSE kw[n]]

\* kwargs without the named parameters a signature binds separately
KwDrop(kw, names) == [n \in DOMAIN kw \ names |-> kw[n]]

KeyOrder == <<"a", "b">>

RECURSIVE DumpItems(_, _)
DumpItems(f, i) ==
    IF i > Len(KeyOrder) THEN <<>>
    ELSE LET rest == DumpItems(f, i + 1)
             k == KeyOrder[i]
         IN  IF k \notin DOMAIN f THEN rest
             ELSE <<k, ":", f[k]>> \o (IF rest = <<>> THEN <<>> ELSE <<",">> \o rest)

\* jsonmodule.dumps(d): the JSON text, as a sequence of tokens
Dumps(d) == [type |-> "str", val |-> <<"{">> \o DumpItems(d.items, 1) \o <<"}">>]

\* res.json(): parse the JSON text back into a dict
Loads(text) ==
    LET n == Len(text) \div 4
    IN  Dict([k \in {text[4 * i - 2] : i \in 1..n} |->
                text[4 * (CHOOSE i \in 1..n : text[4 * i - 2] = k)]])

(***************************************************************************)
(* checkAvailable                                                          *)
(***************************************************************************)
TREQ_PROS_AND_CONS == "txrequests is based on requests ... pip install txrequests or pip install treq"

\* a test written with "or": an error as soon as one backend is missing
CheckAvailable_Or(tx, tr, from_module) ==
    IF ~tx \/ ~tr
    THEN [type |-> "ConfigErrors",
          msg |-> <<"neither txrequests nor treq is installed, but ",
                    from_module, " is requiring it\n\n", TREQ_PROS_AND_CONS>>]
    ELSE None

\* the value config.error() is called with, or None when it is not called
CheckAvailable(tx, tr, from_module) ==
    IF ~tx /\ ~tr
    THEN [type |-> "ConfigErrors",
          msg |-> <<"neither txrequests nor treq is installed, but ",
                    from_module, " is requiring it\n\n", TREQ_PROS_AND_CONS>>]
    ELSE None

checkAvailable ==
    \E from_module \in Labels :
        /\ lastCheck' = [type |-> "checked", label |-> from_module,
                         error |-> CheckAvailable(txrequests, treq, from_module)]
        /\ UNCHANGED <<envVars, PREFER_TREQ, instVars, running, startResult,
                       stopResult, lastCall, wrapper>>

(***************************************************************************)
(* startService / stopService                                              *)
(***************************************************************************)
\* reading self.PREFER_TREQ: the instance attribute shadows the class one
ReadPreferTreq(inst, cls) == IF inst = "unset" THEN cls ELSE FALSE

\* the auth shape is not looked at
ForcedPreferTreq_NoForce(auth, inst) == inst

\* lines 89-90: a non-None, non-tuple auth assigns self.PREFER_TREQ = False
ForcedPreferTreq(auth, inst) ==
    IF ~IsNone(auth) /\ ~IsInstance(auth, "tuple") THEN "False" ELSE inst

\* lines 91-99: which branch of the if / elif / else runs
SelectBackend(tx, tr, prefer) ==
    IF tx /\ ~prefer THEN "txrequests"
    ELSE IF ~tr THEN "ImportError"
    ELSE "treq"

NewSession == [type |-> "Session", closed |-> FALSE]

NewPool == [type |-> "HTTPConnectionPool",
            maxPersistentPerHost |-> MAX_THREADS, closed |-> FALSE]

startService ==
    /\ ~running
    /\ LET inst == ForcedPreferTreq(_auth, instPreferTreq)
           choice == SelectBackend(txrequests, treq,
                                   ReadPreferTreq(inst, PREFER_TREQ))
       IN  /\ instPreferTreq' = inst
           /\ stopResult' = "none"
           /\ CASE choice = "txrequests" ->
                    /\ _session' = NewSession
                    /\ _doRequest' = "_doTxRequest"
                    /\ UNCHANGED <<_pool, _agent>>
                    /\ running' = TRUE
                    /\ startResult' = "ok"
                [] choice = "ImportError" ->
                    /\ UNCHANGED <<_session, _doRequest, _pool, _agent, running>>
                    /\ startResult' = "ImportError"
                [] choice = "treq" ->
                    /\ _doRequest' = "_doTReq"
                    /\ _pool' = NewPool
                    /\ _agent' = [type |-> "Agent", pool |-> NewPool]
                    /\ UNCHANGED _session
                    /\ running' = TRUE
                    /\ startResult' = "ok"
    /\ UNCHANGED <<envVars, PREFER_TREQ, _auth, _headers, lastCall, wrapper,
                   lastCheck>>

\* lines 105-108: which resource the truthiness test of self._session picks
StopTarget(session) ==
    IF ~IsNone(session) THEN "session.close" ELSE "pool.closeCachedConnections"

stopService ==
    /\ running
    /\ running' = FALSE
    /\ stopResult' = StopTarget(_session)
    /\ IF StopTarget(_session) = "session.close"
       THEN /\ _session' = [_session EXCEPT !.closed = TRUE]
            /\ UNCHANGED <<_pool, _agent>>
       ELSE /\ _pool' = [_pool EXCEPT !.closed = TRUE]
            /\ _agent' = [_agent EXCEPT !.pool.closed = TRUE]
            /\ UNCHANGED _session
    /\ UNCHANGED <<envVars, PREFER_TREQ, instPreferTreq, _auth, _headers,
                   _doRequest, startResult, lastCall, wrapper, lastCheck>>

\* the class attribute is overridden (comment at lines 65-67)
SetPreferTreq ==
    /\ PREFER_TREQ' = ~PREFER_TREQ
    /\ UNCHANGED <<envVars, instVars, running, startResult, stopResult,
                   lastCall, wrapper, lastCheck>>

(***************************************************************************)
(* Request normalizer and the two dispatch paths                           *)
(***************************************************************************)
\* the instance auth is assigned even when the call passed its own
PrepareAuth_Overwrite(selfAuth, kws) ==
    IF ~IsNone(selfAuth) THEN KwSet(kws, "auth", selfAuth) ELSE kws

\* lines 112-113
PrepareAuth(selfAuth, kws) ==
    IF ~IsNone(selfAuth) /\ "auth" \notin DOMAIN kws
    THEN KwSet(kws, "auth", selfAuth)
    ELSE kws

\* lines 114-116
MergeHeaders(selfHeaders, kws) ==
    LET headers == IF "headers" \in DOMAIN kws
                   THEN kws["headers"] ELSE Dict(EmptyMap)
    IN  IF ~IsNone(selfHeaders) THEN DictUpdate(headers, selfHeaders)
        ELSE headers

\* _prepareRequest: the normalized kwargs (the url is not modelled)
PrepareRequest(selfAuth, selfHeaders, kws) ==
    LET withAuth == PrepareAuth(selfAuth, kws)
    IN  KwSet(withAuth, "headers", MergeHeaders(selfHeaders, withAuth))

\* _doTxRequest: the keyword arguments self._session.request() is called with
DoTxRequest(selfAuth, selfHeaders, kws) ==
    KwSet(PrepareRequest(selfAuth, selfHeaders, kws),
          "background_callback", [type |-> "function", name |-> "readContent"])

KwGet(kw, k) == IF k \in DOMAIN kw THEN kw[k] ELSE None

\* the Content-Type is set only when the headers do not hold one yet
JsonBody_SetDefault(kw, json) ==
    KwSet(KwSet(kw, "headers",
                IF "Content-Type" \in DOMAIN kw["headers"].items
                THEN kw["headers"]
                ELSE DictSet(kw["headers"], "Content-Type",
                             <<"application/json">>)),
          "data", Dumps(json))

\* lines 155-157: the body and Content-Type of a json= call
JsonBody(kw, json) ==
    KwSet(KwSet(kw, "headers",
                DictSet(kw["headers"], "Content-Type", <<"application/json">>)),
          "data", Dumps(json))

\* _doTReq: the keyword arguments getattr(treq, method)() is called with
DoTReq(selfAuth, selfHeaders, agent, allkw) ==
    LET data == KwGet(allkw, "data")
        json == KwGet(allkw, "json")
        kw0 == PrepareRequest(selfAuth, selfHeaders,
                              KwDrop(allkw, {"data", "json"}))
        kw1 == KwSet(kw0, "headers", Listify(kw0["headers"]))
        kw2 == KwSet(kw1, "agent", agent)
    IN  IF IsInstance(json, "dict")
        THEN JsonBody(kw2, json)
        ELSE IF IsInstance(data, "dict")
        THEN KwSet(kw2, "data", data)
        ELSE kw2

(***************************************************************************)
(* ResponseWrapper                                                         *)
(***************************************************************************)
ResponseBody == Dumps(Dict([a |-> "1"])).val

\* what the session's request deferred fires with
Response == [type |-> "Response", content |-> ResponseBody]

AttributeError == [type |-> "Failure", exc |-> "AttributeError"]

\* makeContent: res.content
MakeContent(res) ==
    IF IsInstance(res, "Response")
    THEN [type |-> "bytes", val |-> res.content]
    ELSE AttributeError

\* makeText: res.json()
MakeText(res) ==
    IF IsInstance(res, "Response") THEN Loads(res.content) ELSE AttributeError

\* Deferred.addCallback: a callback runs on the current result of the chain
\* and replaces it; a Failure skips callbacks
AddCallback(result, cb) ==
    IF IsInstance(result, "Failure") THEN result
    ELSE IF cb = "makeContent" THEN MakeContent(result)
    ELSE MakeText(result)

NoWrapper == [type |-> "none"]

NewWrapper == [type |-> "ResponseWrapper", _deferred |-> Response, log |-> <<>>]

Access(op, cb) ==
    /\ wrapper.type = "ResponseWrapper"
    /\ Len(wrapper.log) < MaxAccess
    /\ LET r == AddCallback(wrapper._deferred, cb)
       IN  wrapper' = [wrapper EXCEPT !._deferred = r,
                          !.log = Append(@, [op |-> op, result |-> r])]
    /\ UNCHANGED <<envVars, PREFER_TREQ, instVars, running, startResult,
                   stopResult, lastCall, lastCheck>>

content == Access("content", "makeContent")

json == Access("json", "makeText")

(***************************************************************************)
(* Verb methods                                                            *)
(***************************************************************************)
\* self._doRequest(method, ep, **kwargs)
DoRequest(method) ==
    /\  CASE _doRequest = "unset" ->
                /\ lastCall' = [type |-> "AttributeError", method |-> method]
                /\ wrapper' = NoWrapper
          [] _doRequest = "_doTxRequest" ->
                /\ lastCall' = [type |-> "dispatch", backend |-> "txrequests",
                                method |-> method,
                                target |-> _session,
                                prepared |-> PrepareRequest(_auth, _headers, kwargs),
                                args |-> DoTxRequest(_auth, _headers, kwargs)]
                /\ wrapper' = NewWrapper
          [] _doRequest = "_doTReq" ->
                /\ lastCall' = [type |-> "dispatch", backend |-> "treq",
                                method |-> method,
                                target |-> _agent.pool,
                                prepared |-> PrepareRequest(_auth, _headers,
                                                KwDrop(kwargs, {"data", "json"})),
                                args |-> DoTReq(_auth, _headers, _agent, kwargs)]
                /\ wrapper' = NoWrapper
    /\ UNCHANGED <<envVars, PREFER_TREQ, instVars, running, startResult,
                   stopResult, lastCheck>>

get == DoRequest("get")

put == DoRequest("put")

delete == DoRequest("delete")

post == DoRequest("post")

(***************************************************************************)
(* Specification                                                           *)
(***************************************************************************)
\* the instance after __init__, for the given ranges of the constructor's
\* headers argument and of the caller's keyword options
InitWith(headerChoices, kwargsChoices) ==
    /\ txrequests \in BOOLEAN
    /\ treq \in BOOLEAN
    /\ PREFER_TREQ = FALSE
    /\ instPreferTreq = "unset"
    /\ _auth \in InstAuthChoices
    /\ _headers \in headerChoices
    /\ _session = None
    /\ _pool = [type |-> "unset"]
    /\ _agent = [type |-> "unset"]
    /\ _doRequest = "unset"
    /\ running = FALSE
    /\ startResult = "none"
    /\ stopResult = "none"
    /\ lastCall = [type |-> "none"]
    /\ wrapper = NoWrapper
    /\ lastCheck = [type |-> "none"]
    /\ kwargs \in kwargsChoices

\* life cycle, wrapper and availability check; plain verb calls
Init == InitWith({None}, {NoKwargs})

Next ==
    \/ checkAvailable
    \/ startService
    \/ stopService
    \/ SetPreferTreq
    \/ get
    \/ put
    \/ delete
    \/ post
    \/ content
    \/ json

Spec == Init /\ [][Next]_vars

\* request normalization and dispatch over all header / option inputs
InitReq == InitWith(InstHeaderChoices, KwargsChoices)

NextReq ==
    \/ startService
    \/ SetPreferTreq
    \/ get
    \/ put
    \/ delete
    \/ post

SpecReq == InitReq /\ [][NextReq]_vars

(***************************************************************************)
(* Properties                                                              *)
(***************************************************************************)
Dispatched == lastCall.type = "dispatch"

CallHeaders == KwGet(kwargs, "headers")

\* C1: in the request produced by _prepareRequest every header name of the
\* per-call mapping keeps its per-call value, and an instance default is used
\* only for names absent from the per-call mapping.
C1_PerCallHeadersWin ==
    Dispatched =>
        LET out == lastCall.prepared["headers"].items
            call == IF IsNone(CallHeaders) THEN EmptyMap ELSE CallHeaders.items
        IN  /\ \A n \in DOMAIN call : n \in DOMAIN out /\ out[n] = call[n]
            /\ \A n \in DOMAIN out \ DOMAIN call :
                    ~IsNone(_headers) /\ n \in DOMAIN _headers.items
                                      /\ out[n] = _headers.items[n]

\* C2: with an instance auth that is set and is not a tuple, a started
\* instance is on BackendA (open session, dispatch bound to _doTxRequest)
\* whenever txrequests is available, whatever PREFER_TREQ and treq are.
NonTupleAuth == ~IsNone(_auth) /\ ~IsInstance(_auth, "tuple")

C2_NonTupleAuthForcesTx ==
    (running /\ NonTupleAuth /\ txrequests) =>
        (_doRequest = "_doTxRequest" /\ _session = NewSession)

C2_Witness ==
    /\ running /\ NonTupleAuth /\ txrequests /\ treq /\ PREFER_TREQ
    /\ _doRequest = "_doTxRequest"

\* C3: startService raises ImportError only when neither backend is
\* available; with at least one available it completes with an available
\* backend selected.
C3_ImportErrorOnlyIfNone ==
    /\ startResult = "ImportError" => (~txrequests /\ ~treq)
    /\ startResult = "ok" =>
        /\ _doRequest = "_doTxRequest" => txrequests
        /\ _doRequest = "_doTReq" => treq

\* C4: after stopService no verb call reaches the session or the agent's pool
\* that stop released, until startService has run again.
C4_NoDispatchAfterStop ==
    Dispatched => ~lastCall.target.closed

\* C5: the dispatched options carry the instance auth when it is set and the
\* call gave none, the per-call auth unchanged when the call gave one, and no
\* auth when neither is set; on both backend paths.
C5_AuthDefaulting ==
    Dispatched =>
        LET args == lastCall.args
        IN  /\ ("auth" \notin DOMAIN kwargs /\ ~IsNone(_auth)) =>
                    ("auth" \in DOMAIN args /\ args["auth"] = _auth)
            /\ "auth" \in DOMAIN kwargs =>
                    ("auth" \in DOMAIN args /\ args["auth"] = kwargs["auth"])
            /\ ("auth" \notin DOMAIN kwargs /\ IsNone(_auth)) =>
                    "auth" \notin DOMAIN args

C5_Witness ==
    /\ Dispatched /\ lastCall.backend = "treq"
    /\ "auth" \in DOMAIN kwargs /\ ~IsNone(_auth)
    /\ lastCall.args["auth"] = CallAuth

\* C6: on the treq path a dict json payload gives the JSON text as body and
\* Content-Type exactly ["application/json"], whatever the merged headers
\* held and whether or not data was given; otherwise a dict data payload is
\* the body and no Content-Type is added; otherwise there is no body.
C6_TReqBody ==
    (Dispatched /\ lastCall.backend = "treq") =>
        LET args == lastCall.args
            out == args["headers"].items
            merged == lastCall.prepared["headers"].items
            j == KwGet(kwargs, "json")
            d == KwGet(kwargs, "data")
        IN  IF IsInstance(j, "dict")
            THEN /\ "data" \in DOMAIN args
                 /\ args["data"].type = "str"
                 /\ Loads(args["data"].val) = j
                 /\ "Content-Type" \in DOMAIN out
                 /\ out["Content-Type"] = <<"application/json">>
            ELSE IF IsInstance(d, "dict")
            THEN /\ "data" \in DOMAIN args
                 /\ args["data"] = d
                 /\ DOMAIN out = DOMAIN merged
                 /\ \A n \in DOMAIN out : out[n] = <<merged[n]>>
            ELSE "data" \notin DOMAIN args

C6_Witness ==
    /\ Dispatched /\ lastCall.backend = "treq"
    /\ IsInstance(KwGet(kwargs, "json"), "dict")
    /\ IsInstance(KwGet(kwargs, "data"), "dict")
    /\ "Content-Type" \in DOMAIN lastCall.prepared["headers"].items
    /\ lastCall.args["data"] = Dumps(kwargs["json"])

\* C7: checkAvailable(label) signals a configuration error iff neither
\* backend is installed, the message contains the label and the guidance
\* text, and the call changes no instance state.
Contains(msg, part) == \E i \in 1..Len(msg) : msg[i] = part

C7_CheckAvailable ==
    /\ [](lastCheck.type = "checked" =>
            /\ (lastCheck.error.type = "ConfigErrors") <=> (~txrequests /\ ~treq)
            /\ lastCheck.error.type = "ConfigErrors" =>
                /\ Contains(lastCheck.error.msg, lastCheck.label)
                /\ Contains(lastCheck.error.msg, TREQ_PROS_AND_CONS)
            /\ lastCheck.error.type # "ConfigErrors" => IsNone(lastCheck.error))
    /\ [][lastCheck' # lastCheck => UNCHANGED instVars]_vars

C7_Witness ==
    /\ lastCheck.type = "checked"
    /\ lastCheck.error.type = "ConfigErrors"
    /\ lastCheck.label = "HipChatStatusPush"

\* C8: a started instance holds exactly one backend's resource, bound to the
\* matching dispatch path: a session with _doTxRequest or a pool / agent
\* with _doTReq, never both.
HoldsSession == ~IsNone(_session)

HoldsPool == _pool.type # "unset" \/ _agent.type # "unset"

C8_ExactlyOneBackend ==
    running =>
        \/ HoldsSession /\ _doRequest = "_doTxRequest" /\ ~HoldsPool
        \/ HoldsPool /\ _doRequest = "_doTReq" /\ ~HoldsSession

\* C9: stopService releases the resource of the backend the most recent
\* startService selected: the session for BackendA, the pool's cached
\* connections for BackendB.
C9_StopReleasesSelected ==
    stopResult # "none" =>
        stopResult = IF _doRequest = "_doTxRequest" THEN "session.close"
                     ELSE "pool.closeCachedConnections"

\* C10: every content() on a ResponseWrapper resolves to the raw body of the
\* response and every json() to its parsed JSON, whatever accessors were
\* invoked on the wrapper before.
C10_AccessorsIndependent ==
    wrapper.type = "ResponseWrapper" =>
        \A i \in 1..Len(wrapper.log) :
            /\ wrapper.log[i].op = "content" =>
                    wrapper.log[i].result = [type |-> "bytes", val |-> ResponseBody]
            /\ wrapper.log[i].op = "json" =>
                    wrapper.log[i].result = Dict([a |-> "1"])

====
